---- MODULE Spec2Model ----
(***************************************************************************)
(* The adaptive diagnostic routing engine of math-wins-daily               *)
(* (src/src/hooks/useDiagnosticFlow.ts), the Diagnostic page that drives   *)
(* it (src/src/pages/Diagnostic.tsx) with its question components and      *)
(* repair screen, and the voice companion's queue                          *)
(* (src/src/hooks/useEnhancedVoiceCompanion.ts).                           *)
(***************************************************************************)
EXTENDS Integers, Sequences, FiniteSets, TLC

\* ------------------------------------------------------------------ bounds
\* Longest result ledger explored when the hook is called directly.
MaxLedger == 4
\* Longest result ledger explored when the hook is driven by the page.
MaxPageLedger == 6
\* Longest result ledger explored when the question components are stepped.
MaxQuestionLedger == 5
\* Number of speak() calls and of stop() calls explored in the voice queue.
MaxSpeak == 3
MaxStops == 2

\* ------------------------------------------------------------- data model
Levels == {"level_1", "level_2"}
Slots == {"A", "B", "repair"}
TaskIds == {"L1_A", "L1_B", "L2_A", "L2_B"}
\* Elapsed seconds a caller may report for one attempt.
Times == {1, 2}

\* Attempt numbers the page can stamp on a result.
AttemptNumbers == 1..(MaxPageLedger + 1)

\* A TaskResult as the engine reads it.  studentAnswer and correctAnswer are
\* opaque payloads that no code of the engine inspects.
Results ==
  [taskId : TaskIds, isCorrect : BOOLEAN, timeTakenSeconds : Times,
   attemptNumber : AttemptNumbers]

null == [taskId |-> "null", type |-> "null"]

DIAGNOSTIC_TASKS ==
  [l \in Levels |->
     IF l = "level_1"
       THEN [s \in {"A", "B"} |->
               IF s = "A" THEN [taskId |-> "L1_A", type |-> "count_objects"]
                          ELSE [taskId |-> "L1_B", type |-> "tap_count"]]
       ELSE [s \in {"A", "B"} |->
               IF s = "A" THEN [taskId |-> "L2_A", type |-> "drag_drop_match"]
                          ELSE [taskId |-> "L2_B", type |-> "count_grouped"]]]

initialState ==
  [currentLevel |-> "level_1",
   currentTask |-> "A",
   taskResults |-> << >>,
   repairAttempts |-> 0,
   needsExtraSupport |-> FALSE,
   isComplete |-> FALSE,
   passedLevel1 |-> FALSE,
   passedLevel2 |-> FALSE]

VARIABLES
  state,          \* the DiagnosticState held by useState
  op,             \* the last call made on the hook, with its argument
  accepted,       \* submitTaskResult calls that took a transition, since creation/reset
  repairEntries,  \* steps that moved currentTask into "repair", since creation/reset
  attemptNumber,  \* the page's attemptNumber (useState(1))
  question,       \* the mounted question component: its phase and pending answer
  repairStep,     \* RepairFlow's currentStep (useState(0))
  voice           \* the voice companion: its refs and the fate of each speak()

\* State of the components around the page's handlers.
uiVars == <<repairStep, voice>>

\* State of the Diagnostic page and of the components it renders.
pageVars == <<attemptNumber, question, repairStep, voice>>

vars == <<state, op, accepted, repairEntries, attemptNumber, question, repairStep, voice>>

\* A freshly mounted question component: showResult is false, nothing pending.
idleQuestion == [phase |-> "idle", isCorrect |-> FALSE, feedback |-> "none"]

\* ------------------------------------------------------------ pure helpers
getCurrentTask_IgnoresComplete(s) ==
  IF s.currentTask = "repair"
    THEN null
    ELSE DIAGNOSTIC_TASKS[s.currentLevel][s.currentTask]

getCurrentTask(s) ==
  IF s.isComplete \/ s.currentTask = "repair"
    THEN null
    ELSE DIAGNOSTIC_TASKS[s.currentLevel][s.currentTask]

\* newResults.filter(r => r.taskId === 'L2_A' || r.taskId === 'L2_B')
level2Results(newResults) ==
  SelectSeq(newResults, LAMBDA r : r.taskId = "L2_A" \/ r.taskId = "L2_B")

\* level2Results.find(r => r.taskId === 'L2_A')?.isCorrect ?? false :
\* Array.prototype.find returns the FIRST matching element.
taskACorrect(newResults) ==
  LET l2 == level2Results(newResults)
      hits == {i \in 1..Len(l2) : l2[i].taskId = "L2_A"}
  IN IF hits = {} THEN FALSE
     ELSE l2[CHOOSE i \in hits : \A j \in hits : i <= j].isCorrect

\* { ...prev, taskResults: newResults, currentLevel: 'level_2', currentTask: 'A',
\*   passedLevel1: true }  (Level 1, task A or task B answered correctly)
level1Pass_NoFlag(prev, newResults) ==
  [prev EXCEPT !.taskResults = newResults,
               !.currentLevel = "level_2",
               !.currentTask = "A"]

level1Pass_Completes(prev, newResults) ==
  [prev EXCEPT !.taskResults = newResults,
               !.currentLevel = "level_2",
               !.currentTask = "A",
               !.passedLevel1 = TRUE,
               !.isComplete = TRUE]

level1Pass(prev, newResults) ==
  [prev EXCEPT !.taskResults = newResults,
               !.currentLevel = "level_2",
               !.currentTask = "A",
               !.passedLevel1 = TRUE]

\* { ...prev, taskResults: newResults, currentTask: 'B' }  (Level 1, task A incorrect)
level1TryB_Escalates(prev, newResults) ==
  [prev EXCEPT !.taskResults = newResults,
               !.currentLevel = "level_2",
               !.currentTask = "A"]

level1TryB_DropsResult(prev, newResults) ==
  [prev EXCEPT !.currentTask = "B"]

level1TryB(prev, newResults) ==
  [prev EXCEPT !.taskResults = newResults,
               !.currentTask = "B"]

\* { ...prev, taskResults: newResults, currentTask: 'repair',
\*   repairAttempts: prev.repairAttempts + 1 }  (both tasks of a level failed)
enterRepair_NoCount(prev, newResults) ==
  [prev EXCEPT !.taskResults = newResults,
               !.currentTask = "repair"]

enterRepair_Restart(prev, newResults) ==
  [prev EXCEPT !.taskResults = newResults,
               !.currentTask = "repair",
               !.repairAttempts = 1]

enterRepair_DropsResult(prev, newResults) ==
  [prev EXCEPT !.currentTask = "repair",
               !.repairAttempts = prev.repairAttempts + 1]

enterRepair_Capped(prev, newResults) ==
  IF prev.repairAttempts >= 2
    THEN [prev EXCEPT !.taskResults = newResults,
                      !.isComplete = TRUE,
                      !.needsExtraSupport = TRUE]
    ELSE [prev EXCEPT !.taskResults = newResults,
                      !.currentTask = "repair",
                      !.repairAttempts = prev.repairAttempts + 1]

enterRepair_FlagsSupport(prev, newResults) ==
  [prev EXCEPT !.taskResults = newResults,
               !.currentTask = "repair",
               !.repairAttempts = prev.repairAttempts + 1,
               !.needsExtraSupport = TRUE]

enterRepair(prev, newResults) ==
  [prev EXCEPT !.taskResults = newResults,
               !.currentTask = "repair",
               !.repairAttempts = prev.repairAttempts + 1]

\* { ...prev, taskResults: newResults, currentTask: 'B' }  (Level 2, task A)
level2TryB_CompletesOnA(prev, newResults) ==
  [prev EXCEPT !.taskResults = newResults,
               !.currentTask = "B",
               !.isComplete = newResults[Len(newResults)].isCorrect]

level2TryB(prev, newResults) ==
  [prev EXCEPT !.taskResults = newResults,
               !.currentTask = "B"]

\* { ...prev, taskResults: newResults, isComplete: true, passedLevel2: true,
\*   needsExtraSupport: <support> }  (Level 2, task B, at least one correct)
level2Complete_NoPass(prev, newResults, support) ==
  [prev EXCEPT !.taskResults = newResults,
               !.isComplete = TRUE,
               !.needsExtraSupport = support]

level2Complete_StaysOpen(prev, newResults, support) ==
  [prev EXCEPT !.taskResults = newResults,
               !.currentTask = "A",
               !.passedLevel2 = TRUE,
               !.needsExtraSupport = support]

level2Complete(prev, newResults, support) ==
  [prev EXCEPT !.taskResults = newResults,
               !.isComplete = TRUE,
               !.passedLevel2 = TRUE,
               !.needsExtraSupport = support]

\* The Level 1 branch of the updater (prev.currentTask is 'A' or 'B').
level1Logic(prev, result, newResults) ==
  IF prev.currentTask = "A"
    THEN IF result.isCorrect
           THEN level1Pass(prev, newResults)
           ELSE level1TryB(prev, newResults)
    ELSE IF result.isCorrect
           THEN level1Pass(prev, newResults)
           ELSE enterRepair(prev, newResults)

\* The Level 2 branch of the updater (prev.currentTask is 'A' or 'B').
level2Logic(prev, result, newResults) ==
  IF prev.currentTask = "A"
    THEN level2TryB(prev, newResults)
    ELSE LET a == taskACorrect(newResults)
             b == result.isCorrect
         IN IF a /\ b THEN level2Complete(prev, newResults, FALSE)
            ELSE IF a # b THEN level2Complete(prev, newResults, TRUE)
            ELSE enterRepair(prev, newResults)

\* The updater passed to setState by submitTaskResult.  A slot other than
\* 'A' or 'B' matches no branch and falls through to `return prev`.
submitTaskResult_AppendsAlways(prev, result) ==
  LET newResults == Append(prev.taskResults, result) IN
  IF prev.currentLevel = "level_1" /\ prev.currentTask \in {"A", "B"}
    THEN level1Logic(prev, result, newResults)
  ELSE IF prev.currentLevel = "level_2" /\ prev.currentTask \in {"A", "B"}
    THEN level2Logic(prev, result, newResults)
  ELSE [prev EXCEPT !.taskResults = newResults]

submitTaskResult(prev, result) ==
  LET newResults == Append(prev.taskResults, result) IN
  IF prev.currentLevel = "level_1" /\ prev.currentTask \in {"A", "B"}
    THEN level1Logic(prev, result, newResults)
  ELSE IF prev.currentLevel = "level_2" /\ prev.currentTask \in {"A", "B"}
    THEN level2Logic(prev, result, newResults)
  ELSE prev

\* The updater passed to setState by completeRepair.
completeRepair_RestartsLevel1(prev) ==
  [prev EXCEPT !.currentTask = "A", !.currentLevel = "level_1"]

completeRepair(prev) == [prev EXCEPT !.currentTask = "A"]

\* -------------------------------------------------------- summary reducer
\* taskResults.filter(r => r.isCorrect).length
correctCount(taskResults) ==
  Len(SelectSeq(taskResults, LAMBDA r : r.isCorrect))

\* taskResults.reduce((sum, r) => sum + r.timeTakenSeconds, 0)
RECURSIVE totalTime_CountsEntries(_)
totalTime_CountsEntries(taskResults) ==
  IF taskResults = << >> THEN 0
  ELSE totalTime_CountsEntries(SubSeq(taskResults, 1, Len(taskResults) - 1)) + 1

RECURSIVE totalTime(_)
totalTime(taskResults) ==
  IF taskResults = << >> THEN 0
  ELSE totalTime(SubSeq(taskResults, 1, Len(taskResults) - 1))
         + taskResults[Len(taskResults)].timeTakenSeconds

\* result.taskId.startsWith('L1') ? 'Basic Counting' : 'Grouped Counting'
topicOf(result) ==
  IF result.taskId \in {"L1_A", "L1_B"} THEN "Basic Counting" ELSE "Grouped Counting"

includes(list, topic) == \E i \in 1..Len(list) : list[i] = topic

\* The forEach over taskResults: lists[1] is strengths, lists[2] is gaps.
RECURSIVE classify_GapWins(_)
classify_GapWins(taskResults) ==
  IF taskResults = << >> THEN << << >>, << >> >>
  ELSE LET lists == classify_GapWins(SubSeq(taskResults, 1, Len(taskResults) - 1))
           result == taskResults[Len(taskResults)]
           topic == topicOf(result)
       IN IF result.isCorrect
            THEN IF ~includes(lists[1], topic) /\ ~includes(lists[2], topic)
                   THEN <<Append(lists[1], topic), lists[2]>> ELSE lists
            ELSE IF ~includes(lists[2], topic)
                   THEN <<lists[1], Append(lists[2], topic)>> ELSE lists

RECURSIVE classify(_)
classify(taskResults) ==
  IF taskResults = << >> THEN << << >>, << >> >>
  ELSE LET lists == classify(SubSeq(taskResults, 1, Len(taskResults) - 1))
           result == taskResults[Len(taskResults)]
           topic == topicOf(result)
       IN IF result.isCorrect
            THEN IF ~includes(lists[1], topic)
                   THEN <<Append(lists[1], topic), lists[2]>> ELSE lists
            ELSE IF ~includes(lists[2], topic)
                   THEN <<lists[1], Append(lists[2], topic)>> ELSE lists

getDiagnosticSummary(s) ==
  [passed |-> s.passedLevel1 \/ s.passedLevel2,
   passedLevel1 |-> s.passedLevel1,
   passedLevel2 |-> s.passedLevel2,
   needsExtraSupport |-> s.needsExtraSupport,
   repairAttempts |-> s.repairAttempts,
   correctCount |-> correctCount(s.taskResults),
   totalQuestions |-> Len(s.taskResults),
   totalTimeSeconds |-> totalTime(s.taskResults),
   gaps |-> classify(s.taskResults)[2],
   strengths |-> classify(s.taskResults)[1]]

\* ------------------------------------------------- voice companion data
\* Retry configuration of the TTS request.
MAX_RETRIES == 3

\* No queue item is being processed.
noItem == [id |-> 0, runId |-> 0, retryCount |-> 0]

\* The refs of useEnhancedVoiceCompanion after mount, with the record of what
\* happened to each speak() call (calls are numbered 1, 2, ... in order).
initialVoice ==
  [runId |-> 0,              \* runIdRef
   queue |-> << >>,          \* queueRef
   isProcessing |-> FALSE,   \* isProcessingRef
   pc |-> "idle",            \* the await processQueue is suspended on
   item |-> noItem,          \* the item processQueue holds
   status |-> "none",        \* kind of the non-ok response in hand
   abortRef |-> FALSE,       \* abortRef holds a controller
   aborted |-> FALSE,        \* the request in flight has been aborted
   mounted |-> TRUE,
   spoken |-> 0,             \* speak() calls made so far
   stops |-> 0,              \* stop() calls made so far
   stopsSince |-> << >>,     \* per call: stop()/unmount since it was made
   resolved |-> {},          \* calls whose promise has been resolved
   played |-> {}]            \* calls whose audio was started, with stopsSince then

\* ---------------------------------------------------------------- actions
Init ==
  /\ state = initialState
  /\ op = [name |-> "init"]
  /\ accepted = 0
  /\ repairEntries = 0
  /\ attemptNumber = 1
  /\ question = idleQuestion
  /\ repairStep = 0
  /\ voice = initialVoice

\* Bookkeeping shared by every call of submitTaskResult.
Submitted(result) ==
  /\ state' = submitTaskResult(state, result)
  /\ op' = [name |-> "submitTaskResult", result |-> result]
  /\ accepted' = IF state.currentTask \in {"A", "B"} THEN accepted + 1 ELSE accepted
  /\ repairEntries' = IF state.currentTask # "repair" /\ state'.currentTask = "repair"
                        THEN repairEntries + 1 ELSE repairEntries

\* Results a direct caller of the hook submits.  Elapsed time is read only
\* by the summary, so direct calls report one value; the page varies it.
\* The attempt number is read by no code of the hook either.
ApiResults == {r \in Results : r.timeTakenSeconds = 1 /\ r.attemptNumber = 1}

SubmitTaskResult ==
  \E result \in ApiResults :
    /\ Len(state.taskResults) < MaxLedger
    /\ Submitted(result)
    /\ UNCHANGED pageVars

\* setState(completeRepair's updater), with the history bookkeeping.
RepairCompleted ==
  /\ state' = completeRepair(state)
  /\ op' = [name |-> "completeRepair"]
  /\ UNCHANGED <<accepted, repairEntries>>

CompleteRepair ==
  /\ RepairCompleted
  /\ UNCHANGED pageVars

ResetDiagnostic_KeepsLedger ==
  /\ state' = [initialState EXCEPT !.taskResults = state.taskResults]
  /\ op' = [name |-> "resetDiagnostic", from |-> state.currentTask,
            wasComplete |-> state.isComplete]
  /\ accepted' = 0
  /\ repairEntries' = 0
  /\ UNCHANGED pageVars

ResetDiagnostic ==
  /\ state' = initialState
  /\ op' = [name |-> "resetDiagnostic", from |-> state.currentTask,
            wasComplete |-> state.isComplete]
  /\ accepted' = 0
  /\ repairEntries' = 0
  /\ UNCHANGED pageVars

\* getDiagnosticSummary() called on the current state; it changes nothing.
SummaryTaken ==
  /\ op' = [name |-> "getDiagnosticSummary", summary |-> getDiagnosticSummary(state)]
  /\ UNCHANGED <<state, accepted, repairEntries>>

GetDiagnosticSummary ==
  /\ SummaryTaken
  /\ UNCHANGED pageVars

Next ==
  SubmitTaskResult \/ CompleteRepair \/ ResetDiagnostic \/ GetDiagnosticSummary

\* The hook called in any order by any client.
Spec == Init /\ [][Next]_vars

\* ------------------------------------------------- the Diagnostic page
\* A question component is rendered only while the session is neither
\* complete nor in repair; its onAnswer is handleAnswer, which stamps the
\* result with the id of the task on screen.
\* handleAnswer(answer, isCorrect): submitTaskResult with the id of the task
\* on screen and the page's attemptNumber, then setAttemptNumber(prev + 1).
handleAnswer_FixedTaskId(isCorrect, timeTaken) ==
  LET currentTask == getCurrentTask(state) IN
  /\ ~state.isComplete
  /\ state.currentTask # "repair"
  /\ currentTask # null
  /\ Submitted([taskId |-> "L1_A",
                isCorrect |-> isCorrect,
                timeTakenSeconds |-> timeTaken,
                attemptNumber |-> attemptNumber])
  /\ attemptNumber' = attemptNumber + 1

handleAnswer(isCorrect, timeTaken) ==
  LET currentTask == getCurrentTask(state) IN
  /\ ~state.isComplete
  /\ state.currentTask # "repair"
  /\ currentTask # null
  /\ Submitted([taskId |-> currentTask.taskId,
                isCorrect |-> isCorrect,
                timeTakenSeconds |-> timeTaken,
                attemptNumber |-> attemptNumber])
  /\ attemptNumber' = attemptNumber + 1

HandleAnswer ==
  \E isCorrect \in BOOLEAN, timeTaken \in Times :
    /\ Len(state.taskResults) < MaxPageLedger
    /\ handleAnswer(isCorrect, timeTaken)
    /\ UNCHANGED question
    /\ UNCHANGED uiVars

\* RepairFlow is rendered only while in repair; its onComplete is
\* handleRepairComplete: completeRepair(), then setAttemptNumber(1).
HandleRepairComplete_KeepsAttempt ==
  /\ ~state.isComplete
  /\ state.currentTask = "repair"
  /\ RepairCompleted
  /\ UNCHANGED <<attemptNumber, question>>
  /\ UNCHANGED uiVars

HandleRepairComplete ==
  /\ ~state.isComplete
  /\ state.currentTask = "repair"
  /\ RepairCompleted
  /\ attemptNumber' = 1
  /\ UNCHANGED question
  /\ UNCHANGED uiVars

\* DiagnosticResults is rendered only when complete, with
\* summary={getDiagnosticSummary()}.
RenderResults ==
  /\ state.isComplete
  /\ SummaryTaken
  /\ UNCHANGED pageVars

NextPage == HandleAnswer \/ HandleRepairComplete \/ RenderResults

SpecPage == Init /\ [][NextPage]_vars

\* Math.round((summary.correctCount / summary.totalQuestions) * 100) of the
\* results screen; the division is undefined for totalQuestions = 0 (NaN).
scorePercentage(summary) ==
  (200 * summary.correctCount + summary.totalQuestions)
    \div (2 * summary.totalQuestions)

\* ------------------------------------------- the question components
\* TapCountQuestion and DragDropQuestion await the feedback callback before
\* calling onAnswer; CountingQuestion and GroupedCountQuestion start a timer.
awaitsFeedback(task) == task.type \in {"tap_count", "drag_drop_match"}

\* What the awaited onCorrectFeedback / onIncorrectFeedback promise does: it
\* awaits the voice companion, whose TTS request has no timeout.
FeedbackOutcomes == {"resolves", "rejects", "never"}

\* handleOptionClick / handleSubmit: the learner commits an answer; showResult
\* is set and the component no longer accepts input: a handler entered with
\* showResult set returns at once (`if (disabled || showResult) return`).
QuestionSubmit_NoGuard ==
  \E isCorrect \in BOOLEAN, outcome \in FeedbackOutcomes :
    LET currentTask == getCurrentTask(state) IN
    /\ currentTask # null
    /\ Len(state.taskResults) < MaxQuestionLedger
    /\ question' = IF awaitsFeedback(currentTask)
                     THEN [phase |-> "feedback", isCorrect |-> isCorrect,
                           feedback |-> outcome]
                     ELSE [phase |-> "delay", isCorrect |-> isCorrect,
                           feedback |-> "none"]
    /\ UNCHANGED <<state, op, accepted, repairEntries, attemptNumber>>
    /\ UNCHANGED uiVars

QuestionSubmit ==
  \E isCorrect \in BOOLEAN, outcome \in FeedbackOutcomes :
    LET currentTask == getCurrentTask(state) IN
    /\ currentTask # null
    /\ question.phase = "idle"
    /\ Len(state.taskResults) < MaxQuestionLedger
    /\ question' = IF awaitsFeedback(currentTask)
                     THEN [phase |-> "feedback", isCorrect |-> isCorrect,
                           feedback |-> outcome]
                     ELSE [phase |-> "delay", isCorrect |-> isCorrect,
                           feedback |-> "none"]
    /\ UNCHANGED <<state, op, accepted, repairEntries, attemptNumber>>
    /\ UNCHANGED uiVars

\* try { await on...Feedback?.() } catch { } : a resolved or rejected promise
\* lets handleSubmit go on to its closing delay.
FeedbackSettles ==
  /\ question.phase = "feedback"
  /\ question.feedback \in {"resolves", "rejects"}
  /\ question' = [question EXCEPT !.phase = "delay"]
  /\ UNCHANGED <<state, op, accepted, repairEntries, attemptNumber>>
  /\ UNCHANGED uiVars

\* The closing timer fires: onAnswer(answer, isCorrect), i.e. handleAnswer;
\* the next task mounts a fresh component.
DeliverAnswer ==
  \E timeTaken \in Times :
    /\ question.phase = "delay"
    /\ handleAnswer(question.isCorrect, timeTaken)
    /\ question' = idleQuestion
    /\ UNCHANGED uiVars

NextQuestion ==
  QuestionSubmit \/ FeedbackSettles \/ DeliverAnswer \/ HandleRepairComplete

\* Promise continuations and timers that are ready do run.
SpecQuestion ==
  /\ Init
  /\ [][NextQuestion]_vars
  /\ WF_vars(FeedbackSettles)
  /\ WF_vars(DeliverAnswer)

\* ------------------------------------------------- the repair controller
\* The step lists of RepairFlow, by the type of each step.
LEVEL_1_REPAIR_STEPS == <<"watch", "practice", "watch">>
LEVEL_2_REPAIR_STEPS == <<"watch", "watch", "watch">>

\* steps = level === 'level_1' ? LEVEL_1_REPAIR_STEPS : LEVEL_2_REPAIR_STEPS
repairSteps(level) ==
  IF level = "level_1" THEN LEVEL_1_REPAIR_STEPS ELSE LEVEL_2_REPAIR_STEPS

\* handleNext, the Next button of RepairFlow (rendered only while in repair):
\* on the last step onComplete(), i.e. handleRepairComplete, after which the
\* component unmounts and a later mount starts at step 0 again; on any other
\* step setCurrentStep(prev => prev + 1).
RepairNext_CompletesFromAnyStep ==
  /\ ~state.isComplete
  /\ state.currentTask = "repair"
  /\ RepairCompleted
  /\ attemptNumber' = 1
  /\ repairStep' = 0
  /\ UNCHANGED <<question, voice>>

RepairNext ==
  LET steps == repairSteps(state.currentLevel)
      isLastStep == repairStep = Len(steps) - 1
  IN /\ ~state.isComplete
     /\ state.currentTask = "repair"
     /\ IF isLastStep
          THEN /\ RepairCompleted
               /\ attemptNumber' = 1
               /\ repairStep' = 0
          ELSE /\ repairStep' = repairStep + 1
               /\ UNCHANGED <<state, op, accepted, repairEntries, attemptNumber>>
     /\ UNCHANGED <<question, voice>>

NextRepair == HandleAnswer \/ RepairNext \/ RenderResults

\* The page with its repair screen stepped through press by press.
SpecRepair == Init /\ [][NextRepair]_vars

\* --------------------------------------------------- the voice companion
\* Everything but the voice companion.
engineVars == <<state, op, accepted, repairEntries, attemptNumber, question, repairStep>>

\* item.resolve()
resolveItem(v, id) == [v EXCEPT !.resolved = @ \cup {id}]

\* The head of processQueue's while loop, run to its next await: items of an
\* older run are resolved and skipped; the first current item is taken and
\* processQueue suspends on getSession(); an empty queue ends the loop and
\* the outer finally clears isProcessingRef.
RECURSIVE loop(_)
loop(v) ==
  IF v.queue = << >>
    THEN [v EXCEPT !.isProcessing = FALSE, !.pc = "idle", !.item = noItem]
    ELSE LET item == Head(v.queue)
             w == [v EXCEPT !.queue = Tail(@)]
         IN IF item.runId # v.runId
              THEN loop(resolveItem(w, item.id))
              ELSE [w EXCEPT !.pc = "session", !.item = item]

\* processQueue(): returns at once when already processing or nothing queued.
processQueue(v) ==
  IF v.isProcessing \/ v.queue = << >>
    THEN v
    ELSE loop([v EXCEPT !.isProcessing = TRUE])

\* The ways an iteration ends without re-queueing: item.resolve(), the inner
\* finally (abortRef.current = null), then the loop head again.
itemDone(v) ==
  loop([resolveItem(v, v.item.id) EXCEPT !.abortRef = FALSE,
                                        !.aborted = FALSE,
                                        !.status = "none"])

\* `continue` without item.resolve().
itemDropped(v) ==
  loop([v EXCEPT !.abortRef = FALSE, !.aborted = FALSE, !.status = "none"])

\* What stop() and the unmount cleanup share: runId + 1, every queued promise
\* resolved and the queue emptied, the request in flight aborted, and a
\* playback in progress force-resolved (its continuation resolves the item
\* and returns to the loop head).
cancelAll(v) ==
  LET v1 == [v EXCEPT !.runId = @ + 1,
                      !.stopsSince = [i \in DOMAIN @ |-> @[i] + 1],
                      !.resolved = @ \cup {v.queue[i].id : i \in DOMAIN v.queue},
                      !.queue = << >>,
                      !.aborted = v.aborted \/ v.abortRef,
                      !.abortRef = FALSE]
  IN IF v.pc = "playing" THEN itemDone(v1) ELSE v1

\* speak(text, options): resolves at once when disabled, empty, rate limited
\* or a duplicate; otherwise queues the item (in front with priority) and
\* calls processQueue().
Speak ==
  \E priority \in BOOLEAN, skipped \in BOOLEAN :
    LET id == voice.spoken + 1
        v0 == [voice EXCEPT !.spoken = id, !.stopsSince = Append(@, 0)]
        queueItem == [id |-> id, runId |-> voice.runId, retryCount |-> 0]
    IN /\ voice.mounted
       /\ voice.spoken < MaxSpeak
       /\ voice' = IF skipped
                     THEN resolveItem(v0, id)
                     ELSE processQueue([v0 EXCEPT !.queue =
                            IF priority THEN <<queueItem>> \o @
                                        ELSE Append(@, queueItem)])
       /\ UNCHANGED engineVars

Stop ==
  /\ voice.mounted
  /\ voice.stops < MaxStops
  /\ voice' = [cancelAll(voice) EXCEPT !.stops = @ + 1]
  /\ UNCHANGED engineVars

\* The cleanup of the mount effect.
Unmount ==
  /\ voice.mounted
  /\ voice' = [cancelAll(voice) EXCEPT !.mounted = FALSE]
  /\ UNCHANGED engineVars

\* await supabase.auth.getSession(): without a session the item is resolved;
\* with one a controller is stored in abortRef and the request is sent.
SessionReturns ==
  \E hasSession \in BOOLEAN :
    /\ voice.pc = "session"
    /\ voice' = IF hasSession
                  THEN [voice EXCEPT !.pc = "fetch", !.abortRef = TRUE,
                                     !.aborted = FALSE]
                  ELSE itemDone(voice)
    /\ UNCHANGED engineVars

\* await fetch(...) settles without an abort: a network error is caught and
\* the item resolved; a response is dropped when a stop() came meanwhile,
\* resolved on 429, read further otherwise.
FetchReturns ==
  \E response \in {"ok", "rateLimited", "serverError", "clientError", "networkError"} :
    /\ voice.pc = "fetch"
    /\ ~voice.aborted
    /\ voice' =
         IF response = "networkError" THEN itemDone(voice)
         ELSE IF voice.item.runId # voice.runId THEN itemDone(voice)
         ELSE IF response = "rateLimited" THEN itemDone(voice)
         ELSE IF response = "ok"
           THEN [voice EXCEPT !.pc = "blob", !.abortRef = FALSE]
           ELSE [voice EXCEPT !.pc = "errorBody", !.abortRef = FALSE,
                              !.status = response]
    /\ UNCHANGED engineVars

\* The aborted request rejects with AbortError: the catch resolves the item.
FetchAborted_NoResolve ==
  /\ voice.pc = "fetch"
  /\ voice.aborted
  /\ voice' = itemDropped(voice)
  /\ UNCHANGED engineVars

FetchAborted ==
  /\ voice.pc = "fetch"
  /\ voice.aborted
  /\ voice' = itemDone(voice)
  /\ UNCHANGED engineVars

\* await response.json() of a non-ok response: a 5xx with retries left goes
\* to the backoff timer, anything else throws and the catch resolves.
ErrorBodyReturns ==
  /\ voice.pc = "errorBody"
  /\ voice' = IF voice.status = "serverError" /\ voice.item.retryCount < MAX_RETRIES
                THEN [voice EXCEPT !.pc = "backoff"]
                ELSE itemDone(voice)
  /\ UNCHANGED engineVars

\* The backoff timer fires: the item is put back in front with
\* retryCount + 1 and the loop continues.
BackoffEnds ==
  /\ voice.pc = "backoff"
  /\ voice' = itemDropped([voice EXCEPT !.queue =
                 <<[voice.item EXCEPT !.retryCount = @ + 1]>> \o @])
  /\ UNCHANGED engineVars

\* await response.blob(): a failure is caught and resolved; bytes of an item
\* of an older run are dropped; otherwise the Audio is created and played.
BlobReturns_NoRunCheck ==
  \E ok \in BOOLEAN :
    /\ voice.pc = "blob"
    /\ voice' = IF ~ok THEN itemDone(voice)
                ELSE [voice EXCEPT !.pc = "playing",
                        !.played = @ \cup {[id |-> voice.item.id,
                                             stopsSince |-> voice.stopsSince[voice.item.id]]}]
    /\ UNCHANGED engineVars

BlobReturns ==
  \E ok \in BOOLEAN :
    /\ voice.pc = "blob"
    /\ voice' = IF ~ok THEN itemDone(voice)
                ELSE IF voice.item.runId # voice.runId THEN itemDone(voice)
                ELSE [voice EXCEPT !.pc = "playing",
                        !.played = @ \cup {[id |-> voice.item.id,
                                             stopsSince |-> voice.stopsSince[voice.item.id]]}]
    /\ UNCHANGED engineVars

\* audio.onended, audio.onerror or a rejected play(): the playback promise
\* settles and the item is resolved (a rejection through the catch).
PlaybackEnds ==
  /\ voice.pc = "playing"
  /\ voice' = itemDone(voice)
  /\ UNCHANGED engineVars

NextVoice ==
  \/ Speak \/ Stop \/ Unmount
  \/ SessionReturns \/ FetchReturns \/ FetchAborted
  \/ ErrorBodyReturns \/ BackoffEnds \/ BlobReturns \/ PlaybackEnds

\* Every request, timer and playback that is under way ends.
SpecVoice ==
  /\ Init
  /\ [][NextVoice]_vars
  /\ WF_vars(SessionReturns)
  /\ WF_vars(FetchReturns)
  /\ WF_vars(FetchAborted)
  /\ WF_vars(ErrorBodyReturns)
  /\ WF_vars(BackoffEnds)
  /\ WF_vars(BlobReturns)
  /\ WF_vars(PlaybackEnds)

\* ------------------------------------------------------ claim vocabulary
ledger == state.taskResults

IsSubmit == op'.name = "submitTaskResult"

\* Flags and counter that a plain slot move must leave alone.
SameFlags ==
  /\ state'.repairAttempts = state.repairAttempts
  /\ state'.needsExtraSupport = state.needsExtraSupport
  /\ state'.passedLevel1 = state.passedLevel1
  /\ state'.passedLevel2 = state.passedLevel2
  /\ state'.isComplete = state.isComplete

IsPrefix(s, t) == Len(s) <= Len(t) /\ \A i \in 1..Len(s) : s[i] = t[i]

\* Correctness of the most recent L2_A entry of a ledger (FALSE when none).
lastL2ACorrect(results) ==
  LET hits == {i \in 1..Len(results) : results[i].taskId = "L2_A"}
  IN IF hits = {} THEN FALSE
     ELSE results[CHOOSE i \in hits : \A j \in hits : j <= i].isCorrect

\* ---------------------------------------------------------------- claims

\* C1: every submitTaskResult at Level 2 slot B, with a the correctness of the
\* most recent L2_A ledger entry and b the correctness of this result, yields:
\* both correct -> complete, passedLevel2, no extra support; exactly one
\* correct -> complete, passedLevel2, extra support; both incorrect -> Repair
\* at Level 2 with repairAttempts+1 and not complete.
C1_Level2BOutcome ==
  [][(IsSubmit /\ state.currentLevel = "level_2" /\ state.currentTask = "B") =>
       LET a == lastL2ACorrect(ledger)
           b == op'.result.isCorrect
       IN /\ (a /\ b) => /\ state'.isComplete
                         /\ state'.passedLevel2
                         /\ ~state'.needsExtraSupport
          /\ (a # b) => /\ state'.isComplete
                        /\ state'.passedLevel2
                        /\ state'.needsExtraSupport
          /\ (~a /\ ~b) => /\ state'.currentTask = "repair"
                           /\ state'.currentLevel = "level_2"
                           /\ state'.repairAttempts = state.repairAttempts + 1
                           /\ ~state'.isComplete]_vars

\* C2: once isComplete is true, a further submitTaskResult changes no field
\* of the state (ledger included).
C2_CompleteIsTerminal ==
  [][(IsSubmit /\ state.isComplete) => state' = state]_vars

\* C3: at Level 1 (slot A or B, not complete) a correct result moves to
\* Level 2 slot A with passedLevel1 set; repairAttempts, needsExtraSupport,
\* passedLevel2 and isComplete keep their values.
C3_Level1CorrectEscalates ==
  [][(/\ IsSubmit
      /\ ~state.isComplete
      /\ state.currentLevel = "level_1"
      /\ state.currentTask \in {"A", "B"}
      /\ op'.result.isCorrect) =>
       /\ state'.currentLevel = "level_2"
       /\ state'.currentTask = "A"
       /\ state'.passedLevel1
       /\ state'.repairAttempts = state.repairAttempts
       /\ state'.needsExtraSupport = state.needsExtraSupport
       /\ state'.passedLevel2 = state.passedLevel2
       /\ state'.isComplete = state.isComplete]_vars

\* Level 1 was passed on the fallback task B.
C3_Witness ==
  /\ op.name = "submitTaskResult"
  /\ op.result.isCorrect
  /\ state.currentLevel = "level_2"
  /\ state.currentTask = "A"
  /\ state.passedLevel1
  /\ Len(ledger) = 2
  /\ ~ledger[1].isCorrect

\* C4: at Level 1 an incorrect result in slot A moves to slot B changing no
\* flag or counter; an incorrect result in slot B moves to Repair of Level 1
\* with repairAttempts+1 and isComplete still false; so fresh -> A incorrect
\* -> B incorrect ends in level 1, Repair, repairAttempts 1, not complete.
C4_Level1Incorrect ==
  [][(/\ IsSubmit
      /\ state.currentLevel = "level_1"
      /\ ~op'.result.isCorrect) =>
       /\ state.currentTask = "A" =>
            /\ state'.currentLevel = "level_1"
            /\ state'.currentTask = "B"
            /\ SameFlags
       /\ state.currentTask = "B" =>
            /\ state'.currentLevel = "level_1"
            /\ state'.currentTask = "repair"
            /\ state'.repairAttempts = state.repairAttempts + 1
            /\ ~state'.isComplete
            /\ state'.needsExtraSupport = state.needsExtraSupport
            /\ state'.passedLevel1 = state.passedLevel1
            /\ state'.passedLevel2 = state.passedLevel2
       /\ (\E r \in Results : ~r.isCorrect /\ state = level1TryB(initialState, <<r>>)) =>
            /\ state'.currentLevel = "level_1"
            /\ state'.currentTask = "repair"
            /\ state'.repairAttempts = 1
            /\ ~state'.isComplete]_vars

\* Fresh, then two incorrect Level-1 results: the session waits in Repair.
C4_Witness ==
  /\ op.name = "submitTaskResult"
  /\ Len(ledger) = 2
  /\ ~ledger[1].isCorrect
  /\ ~ledger[2].isCorrect
  /\ state.currentLevel = "level_1"
  /\ state.currentTask = "repair"
  /\ state.repairAttempts = 1
  /\ ~state.isComplete

\* C5: at Level 2 slot A every result, correct or not, moves to Level 2 slot
\* B; isComplete, the other flags and repairAttempts keep their values.
C5_Level2AAlwaysToB ==
  [][(IsSubmit /\ state.currentLevel = "level_2" /\ state.currentTask = "A") =>
       /\ state'.currentLevel = "level_2"
       /\ state'.currentTask = "B"
       /\ SameFlags]_vars

\* A correct Level-2 A result has been recorded and the session is at slot B,
\* not complete.
C5_Witness ==
  /\ op.name = "submitTaskResult"
  /\ op.result.isCorrect
  /\ state.currentLevel = "level_2"
  /\ state.currentTask = "B"
  /\ ~state.isComplete
  /\ Len(ledger) = 2
  /\ ledger[2] = op.result

\* C6: completeRepair in a Repair state sets currentTask to A and changes
\* nothing else: level, ledger, repairAttempts and all four flags are kept.
C6_CompleteRepairFrame ==
  [][(op'.name = "completeRepair" /\ state.currentTask = "repair") =>
       /\ state'.currentTask = "A"
       /\ state'.currentLevel = state.currentLevel
       /\ state'.taskResults = state.taskResults
       /\ SameFlags]_vars

\* Repair of Level 2 was completed: back at slot A of Level 2, counter kept.
C6_Witness ==
  /\ op.name = "completeRepair"
  /\ state.currentLevel = "level_2"
  /\ state.currentTask = "A"
  /\ state.repairAttempts = 1
  /\ Len(ledger) = 3
  /\ ~ledger[2].isCorrect
  /\ ~ledger[3].isCorrect

\* C7: the ledger is append-only within a session: its length equals the
\* number of accepted submitTaskResult calls, every step other than a reset
\* keeps the old ledger as a prefix, and an accepted result is the last entry
\* right after its submission.
C7_LedgerAppendOnly ==
  /\ [](Len(ledger) = accepted)
  /\ [][/\ op'.name # "resetDiagnostic" => IsPrefix(state.taskResults, state'.taskResults)
        /\ (IsSubmit /\ state.currentTask \in {"A", "B"}) =>
             state'.taskResults = Append(state.taskResults, op'.result)]_vars

\* A result accepted after a completed repair sits at the end of the ledger.
C7_Witness ==
  /\ op.name = "submitTaskResult"
  /\ state.repairAttempts = 1
  /\ state.currentLevel = "level_1"
  /\ state.currentTask = "B"
  /\ Len(ledger) = 3
  /\ accepted = 3
  /\ ledger[3] = op.result

\* C8: submitTaskResult while currentTask is repair changes no field of the
\* state and appends nothing; the repair slot is left only by completeRepair
\* or by a reset.
C8_RepairIgnoresSubmit ==
  [][/\ (IsSubmit /\ state.currentTask = "repair") => state' = state
     /\ (state.currentTask = "repair" /\ state'.currentTask # "repair") =>
          op'.name \in {"completeRepair", "resetDiagnostic"}]_vars

\* A result was submitted during repair and is not in the ledger.
C8_Witness ==
  /\ op.name = "submitTaskResult"
  /\ state.currentTask = "repair"
  /\ Len(ledger) = 2
  /\ op.result # ledger[2]

\* C9: repairAttempts grows by exactly 1 on each step into repair, keeps its
\* value on every other submit and on completeRepair, never decreases within
\* a session, and equals the number of entries into repair since the state
\* was created or reset.
C9_RepairAttemptsCounts ==
  /\ [](state.repairAttempts = repairEntries)
  /\ [][LET enters == state.currentTask # "repair" /\ state'.currentTask = "repair"
        IN /\ enters => state'.repairAttempts = state.repairAttempts + 1
           /\ (~enters /\ op'.name # "resetDiagnostic") =>
                state'.repairAttempts = state.repairAttempts
           /\ op'.name # "resetDiagnostic" =>
                state'.repairAttempts >= state.repairAttempts]_vars

\* Repair has been entered twice in one session.
C9_Witness ==
  /\ state.repairAttempts = 2
  /\ repairEntries = 2
  /\ state.currentTask = "repair"

\* C10: Level 2 implies passedLevel1 (so a state without passedLevel1 is at
\* Level 1), and the level goes from Level 1 to Level 2 only in a step that
\* sets passedLevel1.
C10_Level2NeedsPassedLevel1 ==
  /\ [](state.currentLevel = "level_2" => state.passedLevel1)
  /\ [](~state.passedLevel1 => state.currentLevel = "level_1")
  /\ [][(state.currentLevel = "level_1" /\ state'.currentLevel = "level_2") =>
          (IsSubmit /\ state'.passedLevel1)]_vars

\* Level 2 has been reached.
C10_Witness ==
  /\ state.currentLevel = "level_2"
  /\ state.passedLevel1
  /\ op.name = "submitTaskResult"
  /\ Len(ledger) = 1

\* --------------------------------------------- vocabulary, claims C11..C20
\* The control part of a DiagnosticState: everything but the ledger.
Control(s) ==
  [currentLevel |-> s.currentLevel,
   currentTask |-> s.currentTask,
   repairAttempts |-> s.repairAttempts,
   needsExtraSupport |-> s.needsExtraSupport,
   isComplete |-> s.isComplete,
   passedLevel1 |-> s.passedLevel1,
   passedLevel2 |-> s.passedLevel2]

\* The id L<level>_<slot>, written out.
ExpectedTaskId(level, slot) ==
  CASE level = "level_1" /\ slot = "A" -> "L1_A"
    [] level = "level_1" /\ slot = "B" -> "L1_B"
    [] level = "level_2" /\ slot = "A" -> "L2_A"
    [] level = "level_2" /\ slot = "B" -> "L2_B"

IsSummary == op.name = "getDiagnosticSummary"

Topics == {"Basic Counting", "Grouped Counting"}

NoDuplicates(list) ==
  \A i, j \in 1..Len(list) : list[i] = list[j] => i = j

\* Index of the first ledger entry of a topic with the given correctness
\* (0 when there is none).
FirstOf(results, topic, correct) ==
  LET hits == {i \in 1..Len(results) :
                 topicOf(results[i]) = topic /\ results[i].isCorrect = correct}
  IN IF hits = {} THEN 0 ELSE CHOOSE i \in hits : \A j \in hits : i <= j

\* A list holds exactly the topics that have an entry of the given
\* correctness, once each, in order of first occurrence.
ListsOutcome(list, results, correct) ==
  /\ NoDuplicates(list)
  /\ \A t \in Topics : includes(list, t) <=> FirstOf(results, t, correct) > 0
  /\ \A i, j \in 1..Len(list) :
       i < j => FirstOf(results, list[i], correct) < FirstOf(results, list[j], correct)

\* The result the page builds for the task on screen in state s.
PageResult(s, correct) ==
  [taskId |-> getCurrentTask(s).taskId, isCorrect |-> correct,
   timeTakenSeconds |-> 1, attemptNumber |-> 1]

\* The state the page reaches from a fresh session when the learner's
\* answers have the given correctness, each repair being completed.
RECURSIVE pageRun(_)
pageRun(answers) ==
  IF answers = << >> THEN initialState
  ELSE LET before == pageRun(SubSeq(answers, 1, Len(answers) - 1))
           s == IF before.currentTask = "repair" /\ ~before.isComplete
                  THEN completeRepair(before) ELSE before
       IN IF getCurrentTask(s) = null THEN s
          ELSE submitTaskResult(s, PageResult(s, answers[Len(answers)]))

RefStates ==
  LET runs == {pageRun(a) : a \in UNION {[1..k -> BOOLEAN] : k \in 0..MaxPageLedger}}
  IN runs \cup {completeRepair(s) : s \in {r \in runs : r.currentTask = "repair"}}

\* Two states agree on what C15 lets the outcome depend on.
AgreeOnInputs(s, t) ==
  /\ Control(s) = Control(t)
  /\ (s.currentLevel = "level_2" /\ s.currentTask = "B") =>
       lastL2ACorrect(s.taskResults) = lastL2ACorrect(t.taskResults)

\* Largest repairAttempts value substituted when probing for a cap.
RepairProbe == 6

\* ------------------------------------------------------- claims C11..C20

\* C11: getCurrentTask returns null exactly when isComplete or currentTask is
\* repair; otherwise it returns the catalog task whose taskId is
\* L<level>_<slot> for the current level and slot.
C11_CurrentTask ==
  /\ (getCurrentTask(state) = null) <=>
       (state.isComplete \/ state.currentTask = "repair")
  /\ getCurrentTask(state) # null =>
       /\ getCurrentTask(state).taskId =
            ExpectedTaskId(state.currentLevel, state.currentTask)
       /\ getCurrentTask(state) = DIAGNOSTIC_TASKS[state.currentLevel][state.currentTask]

\* A complete session still sits at slot B, and no task is current.
C11_Witness ==
  /\ state.isComplete
  /\ state.currentTask = "B"
  /\ getCurrentTask(state) = null

\* C12 (as claimed): no topic is listed both as a strength and as a gap.
C12_StrengthsGapsDisjoint ==
  IsSummary =>
    \A t \in Topics :
      ~(includes(op.summary.strengths, t) /\ includes(op.summary.gaps, t))

\* C12 (amended): strengths and gaps are filled independently: strengths
\* holds each topic that has a correct entry, gaps each topic that has an
\* incorrect entry, once each and in order of first occurrence; a topic with
\* both kinds of entry is in both lists.
C12_ListsPerOutcome ==
  IsSummary =>
    /\ ListsOutcome(op.summary.strengths, ledger, TRUE)
    /\ ListsOutcome(op.summary.gaps, ledger, FALSE)
    /\ \A t \in Topics :
         (FirstOf(ledger, t, FALSE) > 0 /\ FirstOf(ledger, t, FALSE) < FirstOf(ledger, t, TRUE))
           => (includes(op.summary.strengths, t) /\ includes(op.summary.gaps, t))

\* Level 1 failed on A, passed on B: Basic Counting is a gap and a strength.
C12_Witness ==
  /\ IsSummary
  /\ state.isComplete
  /\ ~ledger[1].isCorrect
  /\ ledger[2].isCorrect
  /\ includes(op.summary.gaps, "Basic Counting")
  /\ includes(op.summary.strengths, "Basic Counting")

\* C13: on a complete state the summary has correctCount = number of correct
\* ledger entries, totalQuestions = ledger length, totalTimeSeconds = sum of
\* the entries' times, passed = passedLevel1 or passedLevel2, and the state's
\* needsExtraSupport and repairAttempts; three correct results give 3 of 3.
C13_SummaryFields ==
  (IsSummary /\ state.isComplete) =>
    /\ op.summary.correctCount = Cardinality({i \in 1..Len(ledger) : ledger[i].isCorrect})
    /\ op.summary.totalQuestions = Len(ledger)
    /\ \A i \in 1..Len(ledger) : ledger[i].timeTakenSeconds \in Times
    /\ op.summary.totalTimeSeconds =
         Cardinality({i \in 1..Len(ledger) : ledger[i].timeTakenSeconds = 1})
           + 2 * Cardinality({i \in 1..Len(ledger) : ledger[i].timeTakenSeconds = 2})
    /\ op.summary.passed = (state.passedLevel1 \/ state.passedLevel2)
    /\ op.summary.needsExtraSupport = state.needsExtraSupport
    /\ op.summary.repairAttempts = state.repairAttempts
    /\ (Len(ledger) = 3 /\ \A i \in 1..3 : ledger[i].isCorrect) =>
         (op.summary.correctCount = 3 /\ op.summary.totalQuestions = 3)

\* L1_A, L2_A and L2_B all correct, taking 2 + 2 + 1 seconds.
C13_Witness ==
  /\ IsSummary
  /\ state.isComplete
  /\ Len(ledger) = 3
  /\ op.summary.correctCount = 3
  /\ op.summary.totalQuestions = 3
  /\ op.summary.totalTimeSeconds = 5
  /\ ~op.summary.needsExtraSupport

\* C14 (as claimed): the k-th ledger entry has attemptNumber k.
C14_AttemptNumberIsIndex ==
  \A k \in 1..Len(ledger) : ledger[k].attemptNumber = k

\* C14 (amended): attemptNumber starts at 1 and grows by 1 with each
\* submitted result, but restarts at 1 when a repair completes: the first
\* entry, and each entry that follows a failed B task (the entry that sent
\* the session to repair), has attemptNumber 1; every other entry has its
\* predecessor's number plus 1.  Until a repair the k-th entry has number k.
C14_AttemptNumberRestartsAfterRepair ==
  /\ \A k \in 1..Len(ledger) :
       ledger[k].attemptNumber =
         IF k = 1 THEN 1
         ELSE IF ledger[k-1].taskId \in {"L1_B", "L2_B"} /\ ~ledger[k-1].isCorrect
           THEN 1
         ELSE ledger[k-1].attemptNumber + 1
  /\ state.repairAttempts = 0 => C14_AttemptNumberIsIndex

\* The third entry, the first after a Level-1 repair, carries number 1.
C14_Witness ==
  /\ Len(ledger) >= 3
  /\ state.repairAttempts = 1
  /\ ledger[2].attemptNumber = 2
  /\ ledger[3].attemptNumber = 1

\* C15: two page-reachable states that agree on level, slot, flags,
\* repairAttempts and (at Level 2 slot B) on the correctness of the slot-A
\* result of the current pass give, for results of equal correctness, the
\* same control outcome.
C15_OutcomeDependsOnInputsOnly ==
  getCurrentTask(state) # null =>
    \A t \in RefStates, correct \in BOOLEAN :
      (getCurrentTask(t) # null /\ AgreeOnInputs(state, t)) =>
        Control(submitTaskResult(state, PageResult(state, correct)))
          = Control(submitTaskResult(t, PageResult(t, correct)))

\* C16: a submitTaskResult call either leaves the whole state unchanged (in
\* repair) or appends exactly its result and applies the transition in the
\* same step: control never changes without the append, and before
\* completion an append always comes with a control change.
C16_SubmitIsAtomic ==
  [][IsSubmit =>
       \/ state.currentTask = "repair" /\ state' = state
       \/ /\ state.currentTask \in {"A", "B"}
          /\ state'.taskResults = Append(state.taskResults, op'.result)
          /\ ~state.isComplete => Control(state') # Control(state)]_vars

\* One accepted result: the ledger holds it and the slot has moved to B.
C16_Witness ==
  /\ op.name = "submitTaskResult"
  /\ Len(ledger) = 1
  /\ ledger[1] = op.result
  /\ state.currentLevel = "level_1"
  /\ state.currentTask = "B"

\* C17: getDiagnosticSummary called while isComplete is false yields no
\* summary.
C17_SummaryNeedsComplete ==
  IsSummary => state.isComplete

\* C18: once the learner has committed an answer in a question component,
\* the result is eventually delivered to submitTaskResult, whatever the
\* feedback callback does.
C18_AnswerAlwaysDelivered ==
  (question.phase # "idle") ~> (question.phase = "idle")

\* C19: from a state at Level 2 slot A, the passes (A correct, B incorrect)
\* and (A incorrect, B correct) end in the same control state: complete,
\* passedLevel2, needsExtraSupport, same level and repairAttempts.
C19_SplitOrderIrrelevant ==
  (state.currentLevel = "level_2" /\ state.currentTask = "A" /\ ~state.isComplete) =>
    LET pass(a, b) ==
          LET afterA == submitTaskResult(state, PageResult(state, a))
          IN submitTaskResult(afterA, PageResult(afterA, b))
        x == pass(TRUE, FALSE)
        y == pass(FALSE, TRUE)
    IN /\ Control(x) = Control(y)
       /\ x.isComplete /\ x.passedLevel2 /\ x.needsExtraSupport
       /\ x.currentLevel = state.currentLevel
       /\ x.repairAttempts = state.repairAttempts

\* C20: no value of repairAttempts changes what a result does: with any
\* other count in its place the same result gives the same level, slot,
\* flags and ledger and the same increment, so the count never completes the
\* session, never sets needsExtraSupport and never blocks an entry to repair.
C20_NoRepairCap ==
  \A r \in ApiResults, k \in 0..RepairProbe :
    LET u == submitTaskResult(state, r)
        t == submitTaskResult([state EXCEPT !.repairAttempts = k], r)
    IN /\ [t EXCEPT !.repairAttempts = 0] = [u EXCEPT !.repairAttempts = 0]
       /\ t.repairAttempts - k = u.repairAttempts - state.repairAttempts
       /\ (state.currentLevel = "level_1" /\ state.currentTask = "B" /\ ~r.isCorrect) =>
            (t.currentTask = "repair" /\ t.repairAttempts = k + 1 /\ ~t.isComplete)

\* A second repair has been completed and a third pass is about to start.
C20_Witness ==
  /\ op.name = "completeRepair"
  /\ state.repairAttempts = 2
  /\ state.currentTask = "A"
  /\ ~state.isComplete
  /\ ~state.needsExtraSupport
  /\ Len(ledger) = 4

\* ------------------------------------------------------- claims C21..C30

\* C21: resetDiagnostic from any state yields exactly the fresh state:
\* level 1, slot A, empty ledger, repairAttempts 0, all four flags false.
C21_ResetYieldsFresh ==
  [][op'.name = "resetDiagnostic" =>
       state' = [currentLevel |-> "level_1",
                 currentTask |-> "A",
                 taskResults |-> << >>,
                 repairAttempts |-> 0,
                 needsExtraSupport |-> FALSE,
                 isComplete |-> FALSE,
                 passedLevel1 |-> FALSE,
                 passedLevel2 |-> FALSE]]_vars

\* A reset has just been made on a complete session: the session is fresh
\* again.
C21_Witness ==
  /\ op.name = "resetDiagnostic"
  /\ op.wasComplete
  /\ op.from = "B"
  /\ ledger = << >>
  /\ state.currentLevel = "level_1"
  /\ state.currentTask = "A"
  /\ ~state.isComplete
  /\ accepted = 0

\* C22: each Next press of RepairFlow either advances the step index by
\* exactly 1, staying below the number of steps (3) and leaving the engine
\* alone, or, on the last step only, signals completion (completeRepair);
\* the session never leaves repair from an earlier step.
C22_RepairSteps ==
  [][/\ repairStep \in 0..2
     /\ repairStep' \in 0..2
     /\ (repairStep' # repairStep /\ state'.currentTask = "repair") =>
          (repairStep' = repairStep + 1 /\ state' = state)
     /\ (state.currentTask = "repair" /\ state'.currentTask # "repair") =>
          (/\ repairStep = 2
           /\ repairStep' = 0
           /\ op'.name = "completeRepair"
           /\ state' = [state EXCEPT !.currentTask = "A"])
     /\ (state.currentTask = "repair" /\ repairStep < 2) =>
          state'.currentTask = "repair"]_vars

\* The repair screen shows its last step and the session still waits.
C22_Witness ==
  /\ state.currentTask = "repair"
  /\ repairStep = 2
  /\ state.repairAttempts = 1
  /\ ~state.isComplete

\* What the page renders: the key of the mounted view.
View(s) == <<s.isComplete, s.currentLevel, s.currentTask>>

\* C23: a presented question yields at most one result: while an answer is
\* pending (showResult set) nothing the learner does changes it and nothing
\* reaches the engine; the ledger grows only when that one pending answer is
\* delivered, by exactly one entry, and the delivery replaces the view, so
\* the next result comes from a freshly mounted question.
C23_OneResultPerPresentation ==
  [][/\ (question.phase # "idle" /\ question'.phase # "idle") =>
          (question'.isCorrect = question.isCorrect /\ state' = state)
     /\ (ledger' # ledger) =>
          /\ question.phase = "delay"
          /\ question' = idleQuestion
          /\ ledger' = Append(ledger, op'.result)
          /\ op'.result.isCorrect = question.isCorrect
          /\ accepted' = accepted + 1
          /\ View(state') # View(state)]_vars

\* Two questions have each delivered their one result; a third is on screen.
C23_Witness ==
  /\ Len(ledger) = 2
  /\ accepted = 2
  /\ question = idleQuestion
  /\ op.name = "submitTaskResult"
  /\ getCurrentTask(state) # null

\* The speak() calls whose item processQueue currently holds or has queued.
Pending(v) ==
  {v.queue[i].id : i \in DOMAIN v.queue}
    \cup (IF v.pc = "idle" THEN {} ELSE {v.item.id})

\* C24: no utterance starts playing after a stop() that followed its speak():
\* audio is only ever started, and is only ever playing, for a call with no
\* stop() since it was made; after a stop() nothing older stays queued, and
\* a call overtaken by a stop() that is no longer held by the processor has
\* been resolved.
C24_StopInvalidates ==
  /\ \A p \in voice.played : p.stopsSince = 0
  /\ voice.pc = "playing" => voice.stopsSince[voice.item.id] = 0
  /\ \A i \in DOMAIN voice.queue :
       /\ voice.queue[i].runId = voice.runId
       /\ voice.stopsSince[voice.queue[i].id] = 0
  /\ \A id \in 1..voice.spoken :
       (voice.stopsSince[id] > 0 /\ id \notin Pending(voice)) => id \in voice.resolved

\* The first call was overtaken by a stop(): it has been resolved, it never
\* played, and the processor is at rest.
C24_Witness ==
  /\ voice.spoken >= 1
  /\ voice.stopsSince[1] = 1
  /\ voice.pc = "idle"
  /\ 1 \in voice.resolved
  /\ \A p \in voice.played : p.id # 1
  /\ voice.mounted

\* C25: every speak() promise is eventually resolved, given that each request,
\* timer and playback under way ends; the processor is marked busy exactly
\* while it holds an item, so it never stays busy with nothing to do, and
\* nothing is queued while it is not busy.
C25_SpeakAlwaysResolves ==
  /\ \A id \in 1..MaxSpeak : (voice.spoken >= id) ~> (id \in voice.resolved)
  /\ [](voice.isProcessing <=> voice.pc # "idle")
  /\ [](~voice.isProcessing => voice.queue = << >>)
  /\ (voice.isProcessing /\ voice.queue = << >>) ~> ~voice.isProcessing

\* Three calls were made, with a stop() and a playback among them, and all
\* three are resolved.
C25_Witness ==
  /\ voice.spoken = 3
  /\ voice.resolved = {1, 2, 3}
  /\ ~voice.isProcessing
  /\ voice.stops >= 1
  /\ voice.played # {}

\* C26: every complete state has passedLevel1 and passedLevel2, so the
\* summary's passed is true at completion (the results screen never offers
\* 'Try Again', which it shows only when passed is false).
C26_CompleteMeansPassed ==
  state.isComplete =>
    /\ state.passedLevel1
    /\ state.passedLevel2
    /\ getDiagnosticSummary(state).passed
    /\ IsSummary => op.summary.passed

\* A summary has been taken of a session completed with extra support.
C26_Witness ==
  /\ IsSummary
  /\ state.isComplete
  /\ state.needsExtraSupport
  /\ op.summary.passed
  /\ op.summary.passedLevel1
  /\ op.summary.passedLevel2

\* C27: needsExtraSupport is set only at completion: when it is true the
\* state is complete with passedLevel2; in every state that is not complete,
\* repair included, it is false.
C27_SupportOnlyAtCompletion ==
  /\ state.needsExtraSupport => (state.isComplete /\ state.passedLevel2)
  /\ ~state.isComplete => ~state.needsExtraSupport
  /\ state.currentTask = "repair" /\ ~state.isComplete => ~state.needsExtraSupport

\* Level 2 ended with a split result after one repair: support is flagged on
\* the complete state.
C27_Witness ==
  /\ state.needsExtraSupport
  /\ state.isComplete
  /\ state.passedLevel2
  /\ state.repairAttempts = 1
  /\ op.name = "submitTaskResult"

\* C28: a complete page-driven session has at least 3 ledger entries, among
\* them a Level-1 result, an L2_A result and an L2_B result, so the score
\* percentage of the results screen divides by a positive totalQuestions,
\* with 0 <= correctCount <= totalQuestions and a percentage in 0..100.
C28_CompleteHasThreeResults ==
  state.isComplete =>
    LET summary == getDiagnosticSummary(state) IN
    /\ Len(ledger) >= 3
    /\ \E i \in 1..Len(ledger) : ledger[i].taskId \in {"L1_A", "L1_B"}
    /\ \E i \in 1..Len(ledger) : ledger[i].taskId = "L2_A"
    /\ \E i \in 1..Len(ledger) : ledger[i].taskId = "L2_B"
    /\ summary.totalQuestions >= 3
    /\ 0 <= summary.correctCount
    /\ summary.correctCount <= summary.totalQuestions
    /\ scorePercentage(summary) \in 0..100
    /\ IsSummary => op.summary = summary

\* The shortest complete session, shown on the results screen: L1_A and L2_B
\* correct, L2_A not, 2 of 3 rounded to 67 percent.
C28_Witness ==
  /\ IsSummary
  /\ state.isComplete
  /\ Len(ledger) = 3
  /\ op.summary.correctCount = 2
  /\ scorePercentage(op.summary) = 67

\* The session continued from s by completing any repair and answering every
\* task correctly, for at most n calls.
RECURSIVE passRun(_, _)
passRun(s, n) ==
  IF s.isComplete \/ n = 0 THEN s
  ELSE IF s.currentTask = "repair" THEN passRun(completeRepair(s), n - 1)
  ELSE passRun(submitTaskResult(s, PageResult(s, TRUE)), n - 1)

\* C29: no reachable state that is not complete is a dead end: it presents a
\* task or waits in repair, and completing the repair and then answering a
\* Level-1 task and both Level-2 tasks correctly in one pass (at most 4
\* calls) reaches isComplete.
C29_CanAlwaysComplete ==
  ~state.isComplete =>
    /\ getCurrentTask(state) # null \/ state.currentTask = "repair"
    /\ passRun(state, 4).isComplete
    /\ passRun(state, 4).passedLevel2

\* In a second repair, at Level 2, the session can still be completed.
C29_Witness ==
  /\ ~state.isComplete
  /\ state.currentTask = "repair"
  /\ state.currentLevel = "level_2"
  /\ state.repairAttempts = 2
  /\ passRun(state, 4).isComplete

\* C30: driven by the page, each appended entry carries the id of the task of
\* the level and slot that were current at the append, which is one of the
\* four catalog ids; an L2 entry is appended only once passedLevel1 is true,
\* and every L2 entry of the ledger comes after a correct Level-1 entry.
C30_TaskIdMatchesScreen ==
  /\ [][(ledger' # ledger) =>
          /\ ledger' = Append(ledger, op'.result)
          /\ op'.result.taskId = ExpectedTaskId(state.currentLevel, state.currentTask)
          /\ op'.result.taskId \in TaskIds
          /\ op'.result.taskId \in {"L2_A", "L2_B"} => state.passedLevel1]_vars
  /\ [](\A i \in 1..Len(ledger) :
          ledger[i].taskId \in {"L2_A", "L2_B"} =>
            \E j \in 1..(i - 1) :
              ledger[j].taskId \in {"L1_A", "L1_B"} /\ ledger[j].isCorrect)

\* Level 1 passed on task B, then the first Level-2 task answered.
C30_Witness ==
  /\ Len(ledger) = 3
  /\ ledger[1].taskId = "L1_A"
  /\ ledger[2].taskId = "L1_B"
  /\ ledger[3].taskId = "L2_A"
  /\ state.passedLevel1
  /\ state.currentLevel = "level_2"
  /\ state.currentTask = "B"

====
